---- MODULE Spec2Model ----
(***************************************************************************)
(* Model of src/app.py: a Streamlit finance dashboard.                     *)
(*                                                                         *)
(* Streamlit executes the whole script once per user interaction ("script  *)
(* run"): lines 27-28 load the two JSON documents into the module globals  *)
(* user_data and transaction_logs, then main() serves the selected page.   *)
(* The only state that outlives a script run is the two files and the      *)
(* per-session st.session_state.                                           *)
(***************************************************************************)
EXTENDS Integers, Sequences, FiniteSets, TLC

VARIABLES
    userFile,         \* content of user_data.json: [valid, doc]
    logFile,          \* content of transaction_logs.json: [valid, doc]
    user_data,        \* module global user_data of the script run that acted last
    transaction_logs, \* module global transaction_logs of that script run
    session_state,    \* st.session_state.get("user_id") of every session
    snap,             \* per session: globals loaded by a run whose page has not run yet
    out,              \* what the last script run displayed
    regPw,            \* history variable: plain password of each successful Sign Up
    nLogged,          \* history variable: number of uploads reported as logged
    bcrypt_truncates, \* bcrypt build: TRUE = input cut at 72 bytes, FALSE = ValueError
    data              \* input of the aggregation specification SpecAgg

vars == <<userFile, logFile, user_data, transaction_logs, session_state, snap,
          out, regPw, nLogged, bcrypt_truncates, data>>

(***************************************************************************)
(* Bounds and input sets                                                   *)
(***************************************************************************)
MaxHist == 2      \* history entries stored over all users
MaxRows == 3      \* rows of a dataset of SpecAgg

Sessions == {"A", "B"}
None == "<None>"                 \* Python None; no text input returns it
Salts == {"s1", "s2"}            \* bcrypt.gensalt()
\* A password is its first 72 bytes and what follows them.
Pw(first72, rest) == [first72 |-> first72, rest |-> rest]
Passwords == {Pw("a", ""), Pw("a", "x"), Pw("b", "")}
\* What a user types into the Sign Up form besides the identifier.
Form(name, email, password) == [name |-> name, email |-> email, password |-> password]
Forms == { Form("n1", "e1", Pw("a", "")),
           Form("n2", "e2", Pw("b", "")),
           Form("n3", "e3", Pw("a", "x")) }

(***************************************************************************)
(* JSON documents                                                          *)
(***************************************************************************)
EmptyDoc == [k \in {} |-> <<>>]

Put(doc, k, v) == [x \in DOMAIN doc \cup {k} |-> IF x = k THEN v ELSE doc[x]]

Get(doc, k, default) == IF k \in DOMAIN doc THEN doc[k] ELSE default

\* load_json of a file that holds no JSON value raises JSONDecodeError.
load_json(file) == file.doc

\* json.dump opens the file with "w" (truncating it) and writes chunk by chunk;
\* a value it cannot serialize raises TypeError after the prefix is written.
save_json(doc, serializable) ==
    IF serializable THEN [valid |-> TRUE, doc |-> doc]
                    ELSE [valid |-> FALSE, doc |-> EmptyDoc]

(***************************************************************************)
(* Password hashing                                                        *)
(***************************************************************************)
\* bcrypt.hashpw raises ValueError on more than 72 bytes (bcrypt >= 5.0).
BcryptRaises(password) == ~bcrypt_truncates /\ password.rest # ""

\* bcrypt reads the salt and the first 72 bytes of the password only.
hash_password(password, salt) == [salt |-> salt, digest |-> password.first72]

verify_password(stored_password, entered_password) ==
    hash_password(entered_password, stored_password.salt) = stored_password

(***************************************************************************)
(* Datasets and aggregation                                                *)
(***************************************************************************)
Csv(columns, dtype, rows) ==
    [format |-> "csv", columns |-> columns, dtype |-> dtype, rows |-> rows]

Pdf == [format |-> "pdf", columns |-> {}, dtype |-> "float64", rows |-> <<>>]

\* st.file_uploader returns None until a file is chosen.
NoFile == [format |-> "none", columns |-> {}, dtype |-> "float64", rows |-> <<>>]

RECURSIVE SumWhere(_, _)
\* data[data['DrCr'] == dir]['balance'].sum()
SumWhere(rows, dir) ==
    IF rows = <<>> THEN 0
    ELSE (IF Head(rows).DrCr = dir THEN Head(rows).balance ELSE 0)
         + SumWhere(Tail(rows), dir)

\* Mutant: the balance is credit minus debit instead of the last row's.
analyze_net(d) ==
    IF "DrCr" \in d.columns /\ "balance" \in d.columns
    THEN IF d.rows = <<>>
         THEN [err |-> "IndexError"]
         ELSE [err |-> "none",
               total_balance |-> SumWhere(d.rows, "Cr") - SumWhere(d.rows, "Db"),
               incoming |-> SumWhere(d.rows, "Cr"),
               outgoing |-> SumWhere(d.rows, "Db")]
    ELSE [err |-> "ValueError"]

\* Mutant: debits are summed as negative amounts.
analyze_signed(d) ==
    IF "DrCr" \in d.columns /\ "balance" \in d.columns
    THEN IF d.rows = <<>>
         THEN [err |-> "IndexError"]
         ELSE [err |-> "none",
               total_balance |-> d.rows[Len(d.rows)].balance,
               incoming |-> SumWhere(d.rows, "Cr"),
               outgoing |-> 0 - SumWhere(d.rows, "Db")]
    ELSE [err |-> "ValueError"]

\* Mutant: an empty dataset aggregates to zeros instead of raising.
analyze_empty_ok(d) ==
    IF "DrCr" \in d.columns /\ "balance" \in d.columns
    THEN [err |-> "none",
          total_balance |-> IF d.rows = <<>> THEN 0 ELSE d.rows[Len(d.rows)].balance,
          incoming |-> SumWhere(d.rows, "Cr"),
          outgoing |-> SumWhere(d.rows, "Db")]
    ELSE [err |-> "ValueError"]

analyze_transactions(d) ==
    IF "DrCr" \in d.columns /\ "balance" \in d.columns
    THEN IF d.rows = <<>>
         THEN [err |-> "IndexError"]          \* .iloc[-1] of an empty column
         ELSE [err |-> "none",
               total_balance |-> d.rows[Len(d.rows)].balance,
               incoming |-> SumWhere(d.rows, "Cr"),
               outgoing |-> SumWhere(d.rows, "Db")]
    ELSE [err |-> "ValueError"]

\* numpy.int64 aggregates of an integer column are not JSON serializable;
\* numpy.float64 is a Python float.
JsonSerializable(d) == d.dtype = "float64"

store_transaction_data(tl, file, user_id, d, now) ==
    LET a == analyze_transactions(d) IN
    IF a.err # "none"
    THEN [transaction_logs |-> tl, file |-> file,
          msg |-> "Error storing transaction data"]
    ELSE LET entry == [transactions |-> d.rows,
                       total_balance |-> a.total_balance,
                       total_credit |-> a.incoming,
                       total_debit |-> a.outgoing,
                       timestamp |-> now]
             tl2 == Put(tl, user_id, Append(Get(tl, user_id, <<>>), entry))
         IN IF JsonSerializable(d)
            THEN [transaction_logs |-> tl2, file |-> save_json(tl2, TRUE),
                  msg |-> "Transaction logged successfully!"]
            ELSE [transaction_logs |-> tl2, file |-> save_json(tl2, FALSE),
                  msg |-> "Error storing transaction data"]

\* Mutant: the comparison is >= instead of >.
recommendations_geq(tl, user_id) ==
    LET user_transactions == Get(tl, user_id, <<>>) IN
    IF user_transactions = <<>>
    THEN "No transaction data available for recommendations."
    ELSE LET latest_transaction == user_transactions[Len(user_transactions)] IN
         IF 2 * latest_transaction.total_debit >= latest_transaction.total_balance
         THEN "Consider budgeting your expenses."
         ELSE "Your spending is under control!"

\* total_debit > total_balance * 0.5 (halving a float is exact)
recommendations_page(tl, user_id) ==
    LET user_transactions == Get(tl, user_id, <<>>) IN
    IF user_transactions = <<>>
    THEN "No transaction data available for recommendations."
    ELSE LET latest_transaction == user_transactions[Len(user_transactions)] IN
         IF 2 * latest_transaction.total_debit > latest_transaction.total_balance
         THEN "Consider budgeting your expenses."
         ELSE "Your spending is under control!"

\* `if user_id:` of main(): None and "" are both falsy
Truthy(user_id) == user_id # None /\ user_id # ""

(***************************************************************************)
(* Pages of main(), given the globals ud, tl the script run loaded         *)
(***************************************************************************)
Shown(s, page, msg, user_id) ==
    [session |-> s, page |-> page, msg |-> msg, user_id |-> user_id]

\* Mutant: the check of line 190 never finds the identifier.
UserExists_never(ud, user_id) == FALSE

\* `user_id in user_data` of the Register button
UserExists(ud, user_id) == user_id \in DOMAIN ud

\* Mutant: the save re-reads the file and adds to it only what it lacks.
SaveUsers_merge(ud) ==
    save_json([x \in DOMAIN userFile.doc \cup DOMAIN ud |->
                  IF x \in DOMAIN userFile.doc THEN userFile.doc[x] ELSE ud[x]], TRUE)

\* save_json(USER_DATA_FILE, user_data): names, emails and hashes are strings
SaveUsers(ud) == save_json(ud, TRUE)

\* The Login page also shows nothing of the password; out records what was typed.
LoginShown(s, msg, user_id, password) ==
    [session |-> s, page |-> "Login", msg |-> msg, user_id |-> user_id,
     password |-> password]

SignUp(s, ud, tl, user_id, name, email, password, salt) ==
    /\ transaction_logs' = tl
    /\ UNCHANGED <<logFile, session_state, nLogged>>
    /\ IF UserExists(ud, user_id)
       THEN /\ out' = Shown(s, "Sign Up", "User ID already exists.", user_id)
            /\ user_data' = ud
            /\ UNCHANGED <<userFile, regPw>>
       ELSE IF BcryptRaises(password)
       THEN /\ out' = Shown(s, "Sign Up", "ValueError", user_id)
            /\ user_data' = ud
            /\ UNCHANGED <<userFile, regPw>>
       ELSE /\ user_data' = Put(ud, user_id,
                                [name |-> name, email |-> email,
                                 password |-> hash_password(password, salt)])
            /\ userFile' = SaveUsers(user_data')
            /\ regPw' = Put(regPw, user_id, password)
            /\ out' = Shown(s, "Sign Up", "User registered successfully!", user_id)

Login(s, ud, tl, user_id, password) ==
    /\ user_data' = ud
    /\ transaction_logs' = tl
    /\ UNCHANGED <<userFile, logFile, regPw, nLogged>>
    /\ IF user_id \in DOMAIN ud /\ BcryptRaises(password)
       THEN /\ out' = LoginShown(s, "ValueError", user_id, password)
            /\ UNCHANGED session_state
       ELSE IF user_id \in DOMAIN ud
               /\ verify_password(ud[user_id].password, password)
       THEN /\ out' = LoginShown(s, "Welcome back", user_id, password)
            /\ session_state' = [session_state EXCEPT ![s] = user_id]
       ELSE /\ out' = LoginShown(s, "Invalid User ID or Password.", user_id, password)
            /\ UNCHANGED session_state

\* user_profile_page only reads: the profile and the latest totals are displayed.
Profile(s, ud, tl) ==
    /\ user_data' = ud
    /\ transaction_logs' = tl
    /\ UNCHANGED <<userFile, logFile, regPw, nLogged, session_state>>
    /\ out' = IF Truthy(session_state[s])
              THEN Shown(s, "Profile", "User Profile", session_state[s])
              ELSE Shown(s, "Profile", "Please log in", session_state[s])

Recommendations(s, ud, tl) ==
    /\ user_data' = ud
    /\ transaction_logs' = tl
    /\ UNCHANGED <<userFile, logFile, regPw, nLogged, session_state>>
    /\ out' = IF Truthy(session_state[s])
              THEN Shown(s, "Recommendations",
                         recommendations_page(tl, session_state[s]), session_state[s])
              ELSE Shown(s, "Recommendations", "Please log in", session_state[s])

DataAnalytics(s, ud, tl, uploaded_file, now) ==
    /\ user_data' = ud
    /\ UNCHANGED <<userFile, regPw, session_state>>
    /\ IF ~Truthy(session_state[s])
       THEN /\ out' = Shown(s, "Data Analytics", "Please log in", session_state[s])
            /\ transaction_logs' = tl
            /\ UNCHANGED <<logFile, nLogged>>
       ELSE IF uploaded_file = NoFile
       THEN /\ out' = Shown(s, "Data Analytics", "Smart Finance Dashboard",
                            session_state[s])
            /\ transaction_logs' = tl
            /\ UNCHANGED <<logFile, nLogged>>
       ELSE IF uploaded_file.format # "csv"
       THEN /\ out' = Shown(s, "Data Analytics", "Error loading file.",
                            session_state[s])
            /\ transaction_logs' = tl
            /\ UNCHANGED <<logFile, nLogged>>
       ELSE LET r == store_transaction_data(tl, logFile, session_state[s],
                                            uploaded_file, now)
            IN /\ out' = Shown(s, "Data Analytics", r.msg, session_state[s])
               /\ transaction_logs' = r.transaction_logs
               /\ logFile' = r.file
               /\ nLogged' = IF r.msg = "Transaction logged successfully!"
                              THEN nLogged + 1 ELSE nLogged

(***************************************************************************)
(* Script runs, one user interaction each                                  *)
(***************************************************************************)
NoSnap == [started |-> FALSE, user_data |-> EmptyDoc, transaction_logs |-> EmptyDoc]

RECURSIVE TotalEntries(_)
TotalEntries(doc) ==
    IF DOMAIN doc = {} THEN 0
    ELSE LET k == CHOOSE x \in DOMAIN doc : TRUE
         IN Len(doc[k]) + TotalEntries([x \in DOMAIN doc \ {k} |-> doc[x]])

\* The files a user uploads on the Data Analytics page.
Spend60 == Csv({"DrCr", "balance"}, "float64",
               <<[DrCr |-> "Db", balance |-> 60], [DrCr |-> "Cr", balance |-> 100]>>)

Spend50 == Csv({"DrCr", "balance"}, "float64",
               <<[DrCr |-> "Db", balance |-> 50], [DrCr |-> "Cr", balance |-> 100]>>)

IntColumn == Csv({"DrCr", "balance"}, "int64", <<[DrCr |-> "Cr", balance |-> 100]>>)

NoRows == Csv({"DrCr", "balance"}, "float64", <<>>)

NoDrCr == Csv({"balance"}, "float64", <<[balance |-> 100]>>)

NoBalance == Csv({"DrCr"}, "float64", <<[DrCr |-> "Cr"]>>)

Uploads == {Spend60, Spend50, IntColumn, NoRows, NoDrCr, NoBalance, Pdf, NoFile}

\* Lines 27-28 succeed: both documents parse.
Loads(s) == ~snap[s].started /\ userFile.valid /\ logFile.valid

SignUpRun(s, user_id, name, email, password, salt) ==
    /\ Loads(s)
    /\ SignUp(s, load_json(userFile), load_json(logFile),
              user_id, name, email, password, salt)
    /\ UNCHANGED <<snap, bcrypt_truncates, data>>

LoginRun(s, user_id, password) ==
    /\ Loads(s)
    /\ Login(s, load_json(userFile), load_json(logFile), user_id, password)
    /\ UNCHANGED <<snap, bcrypt_truncates, data>>

ProfileRun(s) ==
    /\ Loads(s)
    /\ Profile(s, load_json(userFile), load_json(logFile))
    /\ UNCHANGED <<snap, bcrypt_truncates, data>>

RecommendationsRun(s) ==
    /\ Loads(s)
    /\ Recommendations(s, load_json(userFile), load_json(logFile))
    /\ UNCHANGED <<snap, bcrypt_truncates, data>>

DataAnalyticsRun(s, uploaded_file, now) ==
    /\ Loads(s)
    /\ TotalEntries(logFile.doc) < MaxHist
    /\ DataAnalytics(s, load_json(userFile), load_json(logFile), uploaded_file, now)
    /\ UNCHANGED <<snap, bcrypt_truncates, data>>

\* Line 28 raises JSONDecodeError: the run ends before main() is called.
ScriptCrash(s) ==
    /\ ~snap[s].started
    /\ ~logFile.valid
    /\ out' = Shown(s, "none", "JSONDecodeError", session_state[s])
    /\ user_data' = load_json(userFile)
    /\ transaction_logs' = EmptyDoc
    /\ UNCHANGED <<userFile, logFile, session_state, snap, regPw, nLogged,
                   bcrypt_truncates, data>>

\* load_json creates a missing file holding {}.
InitApp ==
    /\ userFile = save_json(EmptyDoc, TRUE)
    /\ logFile = save_json(EmptyDoc, TRUE)
    /\ user_data = EmptyDoc
    /\ transaction_logs = EmptyDoc
    /\ session_state = [s \in Sessions |-> None]
    /\ snap = [s \in Sessions |-> NoSnap]
    /\ out = Shown("A", "none", "none", None)
    /\ regPw = EmptyDoc
    /\ nLogged = 0

Init == InitApp /\ bcrypt_truncates \in BOOLEAN /\ data = Pdf

DoSignUp(ids, forms, salts) ==
    \E s \in Sessions, user_id \in ids, f \in forms, salt \in salts :
        SignUpRun(s, user_id, f.name, f.email, f.password, salt)

DoLogin(ids, passwords) ==
    \E s \in Sessions, user_id \in ids, password \in passwords :
        LoginRun(s, user_id, password)

DoProfile == \E s \in Sessions : ProfileRun(s)

DoRecommendations == \E s \in Sessions : RecommendationsRun(s)

DoDataAnalytics(files, times) ==
    \E s \in Sessions, uploaded_file \in files, now \in times :
        DataAnalyticsRun(s, uploaded_file, now)

DoScriptCrash == \E s \in Sessions : ScriptCrash(s)

\* Credentials: the empty identifier, long passwords, every Sign Up form.
Ids == {"", "u1"}
AuthUploads == {Spend60, IntColumn, NoFile}
AuthTimes == {1}

Next ==
    \/ DoSignUp(Ids, Forms, Salts)
    \/ DoLogin(Ids, Passwords)
    \/ DoProfile
    \/ DoRecommendations
    \/ DoDataAnalytics(AuthUploads, AuthTimes)
    \/ DoScriptCrash

Spec == Init /\ [][Next]_vars

\* Histories: two users who can upload, every kind of file.
HistIds == {"u1", "u2"}
HistForms == {Form("n1", "e1", Pw("a", ""))}
HistPasswords == {Pw("a", "")}
HistSalts == {"s1"}
Times == {1, 2}                  \* datetime.now()

NextHist ==
    \/ DoSignUp(HistIds, HistForms, HistSalts)
    \/ DoLogin(HistIds, HistPasswords)
    \/ DoProfile
    \/ DoRecommendations
    \/ DoDataAnalytics(Uploads, Times)
    \/ DoScriptCrash

\* No password of HistForms exceeds 72 bytes: every bcrypt build acts alike.
InitHist == InitApp /\ bcrypt_truncates = TRUE /\ data = Pdf

SpecHist == InitHist /\ [][NextHist]_vars

(***************************************************************************)
(* Script runs of two sessions interleaved: a run loads the documents      *)
(* (lines 27-28), and serves its page later, after other runs have acted.  *)
(***************************************************************************)
StartRun(s) ==
    /\ Loads(s)
    /\ snap' = [snap EXCEPT ![s] = [started |-> TRUE,
                                    user_data |-> load_json(userFile),
                                    transaction_logs |-> load_json(logFile)]]
    /\ UNCHANGED <<userFile, logFile, user_data, transaction_logs, session_state,
                   out, regPw, nLogged, bcrypt_truncates, data>>

EndRun(s) ==
    /\ snap[s].started
    /\ snap' = [snap EXCEPT ![s] = NoSnap]
    /\ UNCHANGED <<bcrypt_truncates, data>>

SignUpPage(s, user_id, name, email, password, salt) ==
    /\ EndRun(s)
    /\ SignUp(s, snap[s].user_data, snap[s].transaction_logs,
              user_id, name, email, password, salt)

LoginPage(s, user_id, password) ==
    /\ EndRun(s)
    /\ Login(s, snap[s].user_data, snap[s].transaction_logs, user_id, password)

DataAnalyticsPage(s, uploaded_file, now) ==
    /\ EndRun(s)
    /\ nLogged < MaxHist
    /\ DataAnalytics(s, snap[s].user_data, snap[s].transaction_logs,
                     uploaded_file, now)

ConcUploads == {Spend60}
ConcTimes == {1}

NextConc ==
    \/ \E s \in Sessions : StartRun(s)
    \/ \E s \in Sessions, user_id \in HistIds, f \in HistForms, salt \in HistSalts :
          SignUpPage(s, user_id, f.name, f.email, f.password, salt)
    \/ \E s \in Sessions, user_id \in HistIds, password \in HistPasswords :
          LoginPage(s, user_id, password)
    \/ \E s \in Sessions, uploaded_file \in ConcUploads, now \in ConcTimes :
          DataAnalyticsPage(s, uploaded_file, now)

SpecConc == InitHist /\ [][NextConc]_vars

(***************************************************************************)
(* analyze_transactions on every dataset of up to MaxRows rows             *)
(***************************************************************************)
DrCrValues == {"Cr", "Db", "Dr"}
Balances == {-40, 40, 100, 160}

RowsOver(columns) ==
    { [c \in columns |-> IF c = "DrCr" THEN r[1] ELSE r[2]] :
        r \in DrCrValues \X Balances }

SeqsUpTo(S, n) == UNION { [1..k -> S] : k \in 0..n }

AggDatasets ==
    UNION { { Csv(columns, dtype, rows) :
                rows \in SeqsUpTo(RowsOver(columns), MaxRows) } :
            columns \in SUBSET {"DrCr", "balance"}, dtype \in {"float64"} }

InitAgg == InitApp /\ bcrypt_truncates = TRUE /\ data \in AggDatasets

Analyze ==
    /\ out.page = "none"
    /\ out' = [page |-> "analyze_transactions", result |-> analyze_transactions(data)]
    /\ UNCHANGED <<userFile, logFile, user_data, transaction_logs, session_state,
                   snap, regPw, nLogged, bcrypt_truncates, data>>

NextAgg == Analyze

SpecAgg == InitAgg /\ [][NextAgg]_vars

(***************************************************************************)
(* Properties                                                              *)
(***************************************************************************)
\* The entries of user k that can be read back from the document.
Stored(file, k) == Get(file.doc, k, <<>>)

\* C1: a Sign Up for an identifier already in the store shows "User ID
\* already exists." and changes neither document nor any session; no step
\* changes or removes a stored profile.
C1_FirstRegistrationWins ==
    [][ /\ \A u \in DOMAIN userFile.doc :
             u \in DOMAIN userFile'.doc /\ userFile'.doc[u] = userFile.doc[u]
        /\ (out'.page = "Sign Up" /\ out'.user_id \in DOMAIN userFile.doc)
             => /\ out'.msg = "User ID already exists."
                /\ UNCHANGED <<userFile, logFile, session_state, regPw>>
      ]_vars

\* A second Sign Up for a stored identifier has been refused.
C1_Witness ==
    /\ out.page = "Sign Up"
    /\ out.msg = "User ID already exists."
    /\ out.user_id \in DOMAIN userFile.doc

\* C2: a Login with identifier u and password p shows "Welcome back" iff u
\* is registered and p is the password typed at u's Sign Up.
C2_LoginIffRegisteredPassword ==
    out.page = "Login"
      => ((out.msg = "Welcome back")
            <=> (out.user_id \in DOMAIN regPw /\ regPw[out.user_id] = out.password))

\* C3: in every step the persisted history of each user stays the same or
\* gains exactly one entry at its end, and only the history of the user who
\* uploaded changes; nothing stored is ever edited, reordered or removed.
C3_HistoryAppendOnly ==
    [][ \A u \in HistIds :
             \/ Stored(logFile', u) = Stored(logFile, u)
             \/ /\ out'.page = "Data Analytics" /\ out'.user_id = u
                /\ Len(Stored(logFile', u)) = Len(Stored(logFile, u)) + 1
                /\ SubSeq(Stored(logFile', u), 1, Len(Stored(logFile, u)))
                     = Stored(logFile, u)
      ]_vars

\* C4: an upload that ends in the error branch of store_transaction_data
\* leaves the history document and the in-memory transaction_logs as loaded.
C4_NoPartialApplication ==
    [][ (out'.page = "Data Analytics"
           /\ out'.msg = "Error storing transaction data")
          => /\ logFile' = logFile
             /\ transaction_logs' = load_json(logFile)
      ]_vars

IllFormed(d) == "DrCr" \notin d.columns \/ "balance" \notin d.columns \/ d.rows = <<>>

\* C7: analyze_transactions raises on a dataset without the DrCr column,
\* without the balance column, or without rows; the upload of such a file
\* shows the error and appends nothing, in memory or in the document.
C7_IllFormedRejected ==
    [][ \A s \in Sessions, f \in Uploads, now \in Times :
          (DataAnalyticsRun(s, f, now) /\ Truthy(session_state[s])
             /\ f.format = "csv" /\ IllFormed(f))
            => /\ analyze_transactions(f).err # "none"
               /\ out'.msg = "Error storing transaction data"
               /\ logFile' = logFile
               /\ transaction_logs' = load_json(logFile)
               /\ nLogged' = nLogged
      ]_vars

\* A logged-in user with one stored entry has uploaded an ill-formed file:
\* the error is shown and the document still parses and holds that entry.
C7_Witness ==
    /\ out.page = "Data Analytics"
    /\ out.msg = "Error storing transaction data"
    /\ logFile.valid
    /\ Len(Stored(logFile, out.user_id)) = 1
    /\ transaction_logs = logFile.doc

Reduce == "Consider budgeting your expenses."
UnderControl == "Your spending is under control!"
NoData == "No transaction data available for recommendations."

Totals(total_debit, total_balance) ==
    [total_debit |-> total_debit, total_balance |-> total_balance]

\* C9: the Recommendations page shows the "no data" warning for a user
\* without history, "reduce spending" iff the last entry's total_debit is
\* more than half its total_balance, and "under control" otherwise; it
\* changes no document and no session.
C9_RecommendationRule ==
    [][ (out'.page = "Recommendations" /\ Truthy(out'.user_id))
          => LET h == Stored(logFile, out'.user_id) IN
             /\ h = <<>> => out'.msg = NoData
             /\ h # <<>> =>
                  /\ out'.msg \in {Reduce, UnderControl}
                  /\ out'.msg = Reduce
                       <=> 2 * h[Len(h)].total_debit > h[Len(h)].total_balance
             /\ UNCHANGED <<userFile, logFile, session_state>>
             /\ recommendations_page("u1" :> <<Totals(60, 100)>>, "u1") = Reduce
             /\ recommendations_page("u1" :> <<Totals(40, 100)>>, "u1") = UnderControl
             /\ recommendations_page("u1" :> <<Totals(50, 100)>>, "u1") = UnderControl
      ]_vars

\* The page advises to reduce spending on a last entry of 60 against 100,
\* after an earlier entry of 50 against 100.
C9_Witness ==
    /\ out.page = "Recommendations"
    /\ out.msg = Reduce
    /\ Len(Stored(logFile, out.user_id)) = 2
    /\ Stored(logFile, out.user_id)[1].total_debit = 50
    /\ Stored(logFile, out.user_id)[2].total_debit = 60
    /\ Stored(logFile, out.user_id)[2].total_balance = 100

Views == {"Profile", "Recommendations", "Data Analytics"}

\* C10: a view is served to a session iff a Login of that session has
\* succeeded, and then for the identifier of its last successful Login.
C10_LoginGatesViews ==
    [][ out'.page \in Views
          => /\ out'.user_id = session_state[out'.session]
             /\ (out'.msg # "Please log in") <=> (session_state[out'.session] # None)
      ]_vars

RECURSIVE SumOver(_, _)
\* Sum of the balance of the rows at the positions in idx.
SumOver(rows, idx) ==
    IF idx = {} THEN 0
    ELSE LET i == CHOOSE j \in idx : TRUE
         IN rows[i].balance + SumOver(rows, idx \ {i})

Positions(rows, dir) == {i \in 1..Len(rows) : rows[i].DrCr = dir}

WellFormed(d) == d.columns = {"DrCr", "balance"} /\ d.rows # <<>>

Example == <<[DrCr |-> "Cr", balance |-> 100], [DrCr |-> "Db", balance |-> 40],
             [DrCr |-> "Cr", balance |-> 160]>>

\* C5: on a non-empty dataset with both columns analyze_transactions returns
\* the sum of balance over the 'Cr' rows, the sum of balance over the 'Db'
\* rows, and the balance of the last row.
C5_Aggregates ==
    (out.page = "analyze_transactions" /\ WellFormed(data))
      => /\ out.result.err = "none"
         /\ out.result.incoming = SumOver(data.rows, Positions(data.rows, "Cr"))
         /\ out.result.outgoing = SumOver(data.rows, Positions(data.rows, "Db"))
         /\ out.result.total_balance = data.rows[Len(data.rows)].balance

\* The scenario of the specification: 260, 40, 160.
C5_Witness ==
    /\ out.page = "analyze_transactions"
    /\ data.rows = Example
    /\ out.result = [err |-> "none", total_balance |-> 160,
                     incoming |-> 260, outgoing |-> 40]

CreditDebitOnly(d) == \A i \in 1..Len(d.rows) : d.rows[i].DrCr \in {"Cr", "Db"}

\* C6 as stated: for rows with DrCr in {Cr, Db} and any integer balances,
\* both sums are >= 0.
C6_SumsNonNegative ==
    (out.page = "analyze_transactions" /\ WellFormed(data) /\ CreditDebitOnly(data))
      => out.result.incoming >= 0 /\ out.result.outgoing >= 0

\* C6 amended: for rows with DrCr in {Cr, Db} and balances that are all
\* >= 0, both sums are >= 0.
C6_SumsNonNegativeOfNonNegative ==
    (/\ out.page = "analyze_transactions" /\ WellFormed(data) /\ CreditDebitOnly(data)
     /\ \A i \in 1..Len(data.rows) : data.rows[i].balance >= 0)
      => out.result.incoming >= 0 /\ out.result.outgoing >= 0

\* Non-negative balances with a credit and a debit among them have been summed.
C6_Witness ==
    /\ out.page = "analyze_transactions" /\ WellFormed(data) /\ CreditDebitOnly(data)
    /\ \A i \in 1..Len(data.rows) : data.rows[i].balance >= 0
    /\ out.result.incoming > 0 /\ out.result.outgoing > 0

\* C8: a run that registers or logs an upload rewrites the whole document
\* from the copy it loaded plus its own update, whatever other runs have
\* saved since it loaded; so an update saved in between is dropped.
C8_WholeDocumentRewritten ==
    [][ \A s \in Sessions :
          (snap[s].started /\ ~snap'[s].started)
            => /\ out'.msg = "User registered successfully!"
                  => /\ out'.user_id \notin DOMAIN snap[s].user_data
                     /\ out'.user_id \in DOMAIN userFile'.doc
                     /\ userFile'.doc = Put(snap[s].user_data, out'.user_id,
                                            userFile'.doc[out'.user_id])
               /\ out'.msg = "Transaction logged successfully!"
                  => /\ out'.user_id \in DOMAIN logFile'.doc
                     /\ logFile'.doc = Put(snap[s].transaction_logs, out'.user_id,
                                           logFile'.doc[out'.user_id])
                     /\ Len(logFile'.doc[out'.user_id])
                          = Len(Get(snap[s].transaction_logs, out'.user_id, <<>>)) + 1
      ]_vars

\* Two registrations of distinct identifiers and two uploads were all
\* reported as successful; the documents hold one profile and one entry.
C8_LostUpdates ==
    /\ Cardinality(DOMAIN regPw) = 2
    /\ Cardinality(DOMAIN userFile.doc) = 1
    /\ nLogged = 2
    /\ TotalEntries(logFile.doc) = 1

====
